---- MODULE Spec2Model ----
(***************************************************************************)
(* Cover similarity search pipeline of cover-fraud-detector:               *)
(* isbndbService (searchBooks, getBooksWithCovers, searchBooksByTitle,     *)
(* findSimilarCovers), translationService (normalizeTitle,                 *)
(* getTitleVariations, extractBookTitle) and phashService (calculateHash). *)
(*                                                                         *)
(* A JavaScript string is a sequence of one-character strings.             *)
(* Similarity percentages are integers in units of 1/10000 percent, which  *)
(* is exact for every Hamming distance on a 64-bit hash:                   *)
(* (1 - d/64) * 100 = (64 - d) * 15625 / 10000.                            *)
(***************************************************************************)
EXTENDS Integers, Sequences, FiniteSets, TLC

\* ------------------------------------------------------------------------
\* Text primitives (String.prototype and the regular expressions used)
\* ------------------------------------------------------------------------

UpperChars == <<"A","B","C","D","E","F","G","H","I","J","K","L","M",
                "N","O","P","Q","R","S","T","U","V","W","X","Y","Z">>

LowerChars == <<"a","b","c","d","e","f","g","h","i","j","k","l","m",
                "n","o","p","q","r","s","t","u","v","w","x","y","z">>

DigitChars == {"0","1","2","3","4","5","6","7","8","9"}

\* \s of the regular expressions (the only white space of the modelled names)
IsSpace(c) == c = " "

\* \d
IsDigit(c) == c \in DigitChars

\* \w : [A-Za-z0-9_]
IsWordChar(c) ==
    \/ \E k \in 1..26 : c = UpperChars[k] \/ c = LowerChars[k]
    \/ c \in DigitChars
    \/ c = "_"

toLowerChar(c) ==
    IF \E k \in 1..26 : c = UpperChars[k]
    THEN LowerChars[CHOOSE k \in 1..26 : c = UpperChars[k]]
    ELSE c

\* String.prototype.toLowerCase
toLowerCase(s) == [k \in 1..Len(s) |-> toLowerChar(s[k])]

\* s.slice(n): s without its first n characters
Drop(s, n) == SubSeq(s, n + 1, Len(s))

\* number of leading \s characters of s
RECURSIVE LeadingSpaces(_)
LeadingSpaces(s) ==
    IF s # <<>> /\ IsSpace(Head(s)) THEN 1 + LeadingSpaces(Tail(s)) ELSE 0

\* number of leading \d characters of s
RECURSIVE LeadingDigits(_)
LeadingDigits(s) ==
    IF s # <<>> /\ IsDigit(Head(s)) THEN 1 + LeadingDigits(Tail(s)) ELSE 0

\* s starts with the lower-case literal p, ignoring case (the i flag)
StartsWithCI(s, p) == Len(s) >= Len(p) /\ toLowerCase(SubSeq(s, 1, Len(p))) = p

\* .replace(/[-_]/g, ' ')  and  .replace(/[_-]/g, ' ')
ReplaceSeparators(s) ==
    [k \in 1..Len(s) |-> IF s[k] \in {"-", "_"} THEN " " ELSE s[k]]

\* .replace(/\s+/g, ' ')
RECURSIVE CollapseSpaces(_)
CollapseSpaces(s) ==
    IF s = <<>> THEN <<>>
    ELSE IF IsSpace(Head(s))
         THEN <<" ">> \o CollapseSpaces(Drop(s, LeadingSpaces(s)))
         ELSE <<Head(s)>> \o CollapseSpaces(Tail(s))

TrimStart(s) == Drop(s, LeadingSpaces(s))

RECURSIVE TrimEnd(_)
TrimEnd(s) ==
    IF s # <<>> /\ IsSpace(s[Len(s)]) THEN TrimEnd(SubSeq(s, 1, Len(s) - 1)) ELSE s

\* String.prototype.trim
Trim(s) == TrimEnd(TrimStart(s))

\* ------------------------------------------------------------------------
\* translationService: normalizeTitle, getTitleVariations, extractBookTitle
\* ------------------------------------------------------------------------

\* a position p of s (between s[p-1] and s[p]) is a \b word boundary
WordBoundary(s, p) ==
    LET before == p > 1 /\ IsWordChar(s[p - 1])
        after  == p <= Len(s) /\ IsWordChar(s[p])
    IN  before # after

\* the literal w matches s at position p (ignoring case under the i flag)
MatchAt(s, p, w, ci) ==
    /\ p + Len(w) - 1 <= Len(s)
    /\ LET sub == SubSeq(s, p, p + Len(w) - 1)
       IN  IF ci THEN toLowerCase(sub) = w ELSE sub = w

\* .replace(/\b(alts[1]|alts[2]|...)\b/g, repl) scanning s from position p
RECURSIVE ReplaceWholeWords(_, _, _, _, _)
ReplaceWholeWords(s, p, alts, repl, ci) ==
    IF p > Len(s) THEN <<>>
    ELSE LET hits == {a \in DOMAIN alts :
                        /\ WordBoundary(s, p)
                        /\ MatchAt(s, p, alts[a], ci)
                        /\ WordBoundary(s, p + Len(alts[a]))}
         IN  IF hits # {}
             THEN LET a == CHOOSE x \in hits : \A y \in hits : x <= y
                  IN  repl \o ReplaceWholeWords(s, p + Len(alts[a]), alts, repl, ci)
             ELSE <<s[p]>> \o ReplaceWholeWords(s, p + 1, alts, repl, ci)

\* a Set in insertion order: Set.prototype.add
SetAdd(set, x) ==
    IF \E k \in 1..Len(set) : set[k] = x THEN set ELSE Append(set, x)

RECURSIVE SetAddAll(_, _)
SetAddAll(set, xs) ==
    IF xs = <<>> THEN set ELSE SetAddAll(SetAdd(set, Head(xs)), Tail(xs))

\* a mutant of NonEmptyOnly: nothing is filtered out
NonEmptyOnlyKeepsAll(xs) == xs

\* Array.prototype.filter(v => v.length > 0)
RECURSIVE NonEmptyOnly(_)
NonEmptyOnly(xs) ==
    IF xs = <<>> THEN <<>>
    ELSE IF Len(Head(xs)) > 0
         THEN <<Head(xs)>> \o NonEmptyOnly(Tail(xs))
         ELSE NonEmptyOnly(Tail(xs))

\* keys of COMMON_TRANSLATIONS; a character outside ASCII is written by its
\* code point
HarryPotter ==
    <<"h","a","r","r","y"," ","p","o","t","t","e","r">>

LordOfTheRings ==
    <<"l","o","r","d"," ","o","f"," ","t","h","e"," ","r","i","n","g",
      "s">>

COMMON_TRANSLATIONS(key) ==
    IF key = HarryPotter THEN
      << <<"h","a","r","r","y"," ","p","o","t","t","e","r">>,
         <<"U+0433","U+0430","U+0440","U+0440","U+0438"," ","U+043F",
           "U+043E","U+0442","U+0442","U+0435","U+0440">>,
         <<"U+30CF","U+30EA","U+30FC","U+30FB","U+30DD","U+30C3",
           "U+30BF","U+30FC">>,
         <<"U+54C8","U+5229","U+00B7","U+6CE2","U+7279">> >>
    ELSE IF key = LordOfTheRings THEN
      << <<"l","o","r","d"," ","o","f"," ","t","h","e"," ","r","i","n",
           "g","s">>,
         <<"s","e","U+00F1","o","r"," ","d","e"," ","l","o","s"," ","a",
           "n","i","l","l","o","s">>,
         <<"U+0432","U+043B","U+0430","U+0441","U+0442","U+0435",
           "U+043B","U+0438","U+043D"," ","U+043A","U+043E","U+043B",
           "U+0435","U+0446">> >>
    ELSE <<>>

normalizeTitle(title) ==
    Trim(CollapseSpaces(ReplaceSeparators(toLowerCase(title))))

\* the alternation (the|a|an|copy|book|novel), in its order
CommonWords == << <<"t","h","e">>, <<"a">>, <<"a","n">>, <<"c","o","p","y">>,
                 <<"b","o","o","k">>, <<"n","o","v","e","l">> >>

getTitleVariations(title) ==
    LET normalized == normalizeTitle(title)
        base == SetAdd(SetAdd(<<>>, normalized), title)
        lowerTitle == toLowerCase(normalized)
        withTrans == SetAddAll(base, COMMON_TRANSLATIONS(lowerTitle))
        withoutCommon ==
            Trim(CollapseSpaces(
                ReplaceWholeWords(normalized, 1, CommonWords, <<>>, TRUE)))
        withCommon ==
            IF withoutCommon # <<>> /\ withoutCommon # normalized
            THEN SetAdd(withTrans, withoutCommon) ELSE withTrans
        withNumbers ==
            ReplaceWholeWords(
              ReplaceWholeWords(
                ReplaceWholeWords(normalized, 1, << <<"o","n","e">> >>, <<"1">>, FALSE),
                1, << <<"t","w","o">> >>, <<"2">>, FALSE),
              1, << <<"t","h","r","e","e">> >>, <<"3">>, FALSE)
        variations ==
            IF withNumbers # normalized
            THEN SetAdd(withCommon, withNumbers) ELSE withCommon
    IN  NonEmptyOnly(variations)

\* the alternation (jpg|jpeg|png|svg|webp|gif)
ImageExtensions == { <<"j","p","g">>, <<"j","p","e","g">>, <<"p","n","g">>,
                     <<"s","v","g">>, <<"w","e","b","p">>, <<"g","i","f">> }

\* .replace(/\.(jpg|jpeg|png|svg|webp|gif)$/i, '')
StripExtension(s) ==
    LET ends == {e \in ImageExtensions :
                    /\ Len(s) >= Len(e) + 1
                    /\ s[Len(s) - Len(e)] = "."
                    /\ toLowerCase(SubSeq(s, Len(s) - Len(e) + 1, Len(s))) = e}
    IN  IF ends = {} THEN s
        ELSE LET e == CHOOSE x \in ends : TRUE
             IN  SubSeq(s, 1, Len(s) - Len(e) - 1)

\* length of the match of /\s*-?\s*copy\s*(\(\d+\)|\d+)?/i at the start of s,
\* 0 when it does not match there
CopyMatchLen(s) ==
    LET k1   == LeadingSpaces(s)
        r1   == Drop(s, k1)
        dash == IF r1 # <<>> /\ Head(r1) = "-" THEN 1 ELSE 0
        r2   == Drop(r1, dash)
        k2   == LeadingSpaces(r2)
        r3   == Drop(r2, k2)
    IN  IF ~StartsWithCI(r3, <<"c","o","p","y">>) THEN 0
        ELSE LET r4 == Drop(r3, 4)
                 k3 == LeadingSpaces(r4)
                 r5 == Drop(r4, k3)
                 nd == IF r5 # <<>> THEN LeadingDigits(Tail(r5)) ELSE 0
                 num == IF /\ r5 # <<>> /\ Head(r5) = "(" /\ nd > 0
                           /\ Len(r5) >= nd + 2 /\ r5[nd + 2] = ")"
                        THEN nd + 2
                        ELSE LeadingDigits(r5)
             IN  k1 + dash + k2 + 4 + k3 + num

\* .replace(/\s*-?\s*copy\s*(\(\d+\)|\d+)?/gi, '')
RECURSIVE RemoveCopy(_)
RemoveCopy(s) ==
    IF s = <<>> THEN <<>>
    ELSE IF CopyMatchLen(s) > 0
         THEN RemoveCopy(Drop(s, CopyMatchLen(s)))
         ELSE <<Head(s)>> \o RemoveCopy(Tail(s))

extractBookTitle(filename) ==
    Trim(CollapseSpaces(RemoveCopy(ReplaceSeparators(StripExtension(filename)))))

\* ------------------------------------------------------------------------
\* Bounds and the sampled inputs of one findSimilarCovers invocation
\* ------------------------------------------------------------------------

\* books the catalog returns, in total, during one invocation
MaxCatalogBooks == 2

\* a property that is undefined (or missing) in a catalog record
Undefined == "undefined"

\* a falsy identifier: undefined or the empty string
Falsy(v) == v \in {Undefined, ""}

CoverA == <<"a",".","j","p","g">>
CoverB == <<"b",".","j","p","g">>
CoverC == <<"c",".","j","p","g">>
CoverD == <<"d",".","j","p","g">>

\* Catalog records.  image is a string; a record without image would be
\* written with the empty string, which book.image && ... treats alike.  t1
\* and t2 share a key through different fields, t3 and t4 have no identifier,
\* t5 has the key of t1 and a blank image.
BookPool ==
    { [title |-> "t1", isbn13 |-> "9780000000001", isbn |-> Undefined, image |-> CoverA],
      [title |-> "t2", isbn13 |-> Undefined, isbn |-> "9780000000001", image |-> CoverB],
      [title |-> "t3", isbn13 |-> Undefined, isbn |-> Undefined, image |-> CoverC],
      [title |-> "t4", isbn13 |-> "", isbn |-> Undefined, image |-> CoverD],
      [title |-> "t5", isbn13 |-> "9780000000001", isbn |-> Undefined, image |-> <<" ">>] }

\* all sequences over S of length at most n
SeqsUpTo(S, n) == UNION {[1..k -> S] : k \in 0..n}

EmptyName == <<>>
ShortName == <<"i","t",".","p","n","g">>
BookName  ==
    <<"M","y","_","B","o","o","k"," ","-"," ","c","o","p","y"," ","(","2",")",
      ".","j","p","g">>

ImageNames == {EmptyName, ShortName, BookName}

\* options.query of Modal.handleScan and the default of findSimilarCovers
Fiction == <<"f","i","c","t","i","o","n">>

\* similarityThreshold values, in 1/10000 percent: 70 and 95.312
Thresholds == {700000, 953120}

TopNs == {1, 2}

\* Hamming distances the hash primitive reports for a candidate cover
Distances == {2, 3, 40}

\* ways calculateHash rejects: initPhash, fetchImageBytes, new wasm.ImageHash
HashFailures == {"wasm-init-failed", "fetch-failed", "decode-failed"}

ConfigError == "config-error"
RemoteError == "remote-error"

\* ------------------------------------------------------------------------
\* State
\* ------------------------------------------------------------------------

VARIABLES
    apiKey,               \* ISBNDB_API_KEY is configured
    imageName, query, similarityThreshold, topN, onProgress,   \* options
    pc,                   \* position of the invocation
    wasmModule,           \* phashService: the WASM module is loaded
    targetHash,           \* "pending", "ok" or "failed"
    error,                \* the error the invocation rejected with
    searchMethod, titleTier, titleVariations, vi,
    allBooks, seenIsbns,  \* locals of searchBooksByTitle
    received,             \* records of the successful title responses, in order
    calls,                \* searchBooks calls made so far, with the number
                          \* of records each returned
    books, i, comparisons,
    hashed,               \* outcome of calculateHash per compared candidate
    progress,             \* onProgress notifications made so far
    result,               \* <<>> or <<the object returned>>
    \* direct calls of the functions of translationService
    fn,                   \* the function called, "none" before the call
    text,                 \* its argument: a title or a file name
    maxLanguages,         \* second argument of getMultilingualTitles
    translated,           \* per language tried: "pending" or what
                          \* translateText resolved to
    output,               \* <<>> or <<the value returned>>
    \* concurrent calls of initPhash
    callers,              \* where each caller is inside initPhash
    initCalls,            \* invocations of wasmImport.default() so far
    \* the Modal component and the useModal hook
    isOpen, selectedImage,
    isScanning, scanResults, scanError, scanProgress,
    scan,                 \* <<>> or <<the handleScan call awaiting
                          \* findSimilarCovers>>
    opening               \* how many times the modal has been opened

vars == <<apiKey, imageName, query, similarityThreshold, topN, onProgress, pc,
          wasmModule, targetHash, error, searchMethod, titleTier,
          titleVariations, vi, allBooks, seenIsbns, received, calls, books, i,
          comparisons, hashed, progress, result, fn, text, maxLanguages,
          translated, output, callers, initCalls, isOpen, selectedImage,
          isScanning, scanResults, scanError, scanProgress, scan, opening>>

modal == <<isOpen, selectedImage, isScanning, scanResults, scanError,
           scanProgress, scan, opening>>

\* the variables of a findSimilarCovers invocation
invocation == <<apiKey, imageName, query, similarityThreshold, topN,
                onProgress, pc, targetHash, error, searchMethod, titleTier,
                titleVariations, vi, allBooks, seenIsbns, received, calls,
                books, i, comparisons, hashed, progress, result>>

pipeline == <<invocation, wasmModule>>

aside == <<fn, text, maxLanguages, translated, output, callers, initCalls>>

inputs == <<apiKey, imageName, query, similarityThreshold, topN, onProgress>>

\* useState({ current: 0, total: 0, book: '' }), with the scan the numbers
\* come from
NoProgress == [current |-> 0, total |-> 0, image |-> "none", opening |-> 0]

\* the Modal as mounted by App: closed, without an image, nothing scanned
ModalClosed ==
    /\ isOpen = FALSE
    /\ selectedImage = "none"
    /\ isScanning = FALSE
    /\ scanResults = <<>>
    /\ scanError = <<>>
    /\ scanProgress = NoProgress
    /\ scan = <<>>
    /\ opening = 0

\* no function of translationService is called directly and nobody calls
\* initPhash concurrently
NoDirectCall ==
    /\ fn = "none"
    /\ text = ""
    /\ maxLanguages = 0
    /\ translated = <<>>
    /\ output = <<>>
    /\ callers = <<>>
    /\ initCalls = 0

\* findSimilarCovers is called and nothing of it has run
NotStarted ==
    /\ pc = "start"
    /\ wasmModule = FALSE
    /\ targetHash = "pending"
    /\ error = "none"
    /\ searchMethod = "generic"
    /\ titleTier = "pending"
    /\ titleVariations = <<>>
    /\ vi = 1
    /\ allBooks = <<>>
    /\ seenIsbns = {}
    /\ received = <<>>
    /\ calls = <<>>
    /\ books = <<>>
    /\ i = 0
    /\ comparisons = <<>>
    /\ hashed = <<>>
    /\ progress = <<>>
    /\ result = <<>>

\* the arguments of a findSimilarCovers call that never starts
NotInvoked ==
    /\ apiKey = FALSE
    /\ imageName = EmptyName
    /\ query = Fiction
    /\ similarityThreshold = 700000
    /\ topN = 1
    /\ onProgress = FALSE
    /\ NotStarted

Init ==
    /\ apiKey \in BOOLEAN
    /\ imageName \in ImageNames
    /\ query = Fiction
    /\ similarityThreshold \in Thresholds
    /\ topN \in TopNs
    \* every pair of values of two options occurs in some initial state
    /\ onProgress = ((similarityThreshold = 700000) = (topN = 1))
    /\ NotStarted
    /\ NoDirectCall
    /\ ModalClosed

\* ------------------------------------------------------------------------
\* isbndbService: the catalog client and the title-based search
\* ------------------------------------------------------------------------

\* searchBooks: what one call can end with.  Without the API key it throws the
\* configuration error before any request; otherwise the request fails (a
\* non-ok status, a network error) or returns data.books || [].
searchBooks(maxBooks) ==
    IF ~apiKey
    THEN {[status |-> ConfigError, books |-> <<>>]}
    ELSE {[status |-> RemoteError, books |-> <<>>]}
         \cup {[status |-> "ok", books |-> b] : b \in SeqsUpTo(BookPool, maxBooks)}

\* book.image && book.image.trim() !== ''
HasCover(book) == book.image # <<>> /\ Trim(book.image) # <<>>

\* book.isbn13 || book.isbn
DedupKey(book) == IF ~Falsy(book.isbn13) THEN book.isbn13 ELSE book.isbn

\* a mutant of KeepBook: the seenIsbns test is missing
KeepBookUnseenOrNot(book, seen) == HasCover(book)

\* the condition under which the forEach callback keeps a book
KeepBook(book, seen) == HasCover(book) /\ DedupKey(book) \notin seen

\* books.forEach(book => { ... }) over one response: the new allBooks and
\* seenIsbns
RECURSIVE AddBooks(_, _, _)
AddBooks(resp, all, seen) ==
    IF resp = <<>> THEN [allBooks |-> all, seenIsbns |-> seen]
    ELSE IF KeepBook(Head(resp), seen)
         THEN AddBooks(Tail(resp), Append(all, Head(resp)),
                       seen \cup {DedupKey(Head(resp))})
         ELSE AddBooks(Tail(resp), all, seen)

\* a mutant of AfterFailedVariation: the failure ends the loop
AfterFailedVariationBreak(v, n) == n + 1

\* the catch block of the variation loop: the index of the next variation
\* searched after variation v of n failed
AfterFailedVariation(v, n) == v + 1

\* books.filter(book => book.image && book.image.trim() !== '')
RECURSIVE CoveredOnly(_)
CoveredOnly(resp) ==
    IF resp = <<>> THEN <<>>
    ELSE IF HasCover(Head(resp))
         THEN <<Head(resp)>> \o CoveredOnly(Tail(resp))
         ELSE CoveredOnly(Tail(resp))

\* books of the catalog not yet returned in this invocation
Remaining == MaxCatalogBooks - Len(received)

\* ------------------------------------------------------------------------
\* isbndbService: findSimilarCovers
\* ------------------------------------------------------------------------

\* 8 * 8, the bit width of the hash
maxDistance == 64

\* (1.0 - (hammingDistance / maxDistance)) * 100.0, in 1/10000 percent
Similarity(hammingDistance) ==
    ((maxDistance - hammingDistance) * 1000000) \div maxDistance

\* a mutant of RoundedSimilarity: the digits after the second are cut off
RoundedSimilarityTruncated(similarity) == similarity \div 100

\* Math.round(similarity * 100) / 100, in 1/100 percent
RoundedSimilarity(similarity) == (similarity + 50) \div 100

\* similarity >= similarityThreshold
PassesThreshold(similarity, threshold) == similarity >= threshold

\* a mutant of NeedsFallback: the generic search always runs
NeedsFallbackAlways(bs) == TRUE

\* books.length === 0 at the fallback
NeedsFallback(bs) == Len(bs) = 0

\* a mutant of FallbackMethod: searchMethod is not reassigned when the
\* fallback finds books
FallbackMethodKept(bs) == IF Len(bs) > 0 THEN searchMethod ELSE "none"

\* books.length > 0 ? 'generic' : 'none'
FallbackMethod(bs) == IF Len(bs) > 0 THEN "generic" ELSE "none"

\* a mutant of AfterFailedBook: the failure ends the loop
AfterFailedBookBreak(k, n) == n

\* the catch block of the comparison loop: the index of the next candidate
\* compared after candidate k (0-based) of n failed
AfterFailedBook(k, n) == k + 1

\* imageName || query
SearchQuery == IF imageName # <<>> THEN imageName ELSE query

\* a mutant of Comparison: the flag tells that the title-based search was
\* attempted, not that it found the candidates
ComparisonFlagAttempted(book, hammingDistance) ==
    [book |-> [title |-> book.title, isbn |-> DedupKey(book), image |-> book.image],
     similarity |-> RoundedSimilarity(Similarity(hammingDistance)),
     hammingDistance |-> hammingDistance,
     matchedByTitle |-> (titleTier = "attempted")]

\* the entry pushed for a candidate whose similarity passes
Comparison(book, hammingDistance) ==
    [book |-> [title |-> book.title, isbn |-> DedupKey(book), image |-> book.image],
     similarity |-> RoundedSimilarity(Similarity(hammingDistance)),
     hammingDistance |-> hammingDistance,
     matchedByTitle |-> (searchMethod = "title-based")]

\* one step of the stable sort: x goes after every entry that compares
\* less than or equal to it under (a, b) => b.similarity - a.similarity
RECURSIVE InsertBySimilarity(_, _)
InsertBySimilarity(sorted, x) ==
    IF sorted = <<>> THEN <<x>>
    ELSE IF Head(sorted).similarity >= x.similarity
         THEN <<Head(sorted)>> \o InsertBySimilarity(Tail(sorted), x)
         ELSE <<x>> \o sorted

\* comparisons.sort((a, b) => b.similarity - a.similarity)
RECURSIVE SortBySimilarity(_)
SortBySimilarity(cs) ==
    IF cs = <<>> THEN <<>>
    ELSE InsertBySimilarity(SortBySimilarity(SubSeq(cs, 1, Len(cs) - 1)), cs[Len(cs)])

\* Array.prototype.slice(0, n)
Slice(cs, n) ==
    IF n >= 0
    THEN SubSeq(cs, 1, IF n < Len(cs) THEN n ELSE Len(cs))
    ELSE SubSeq(cs, 1, IF Len(cs) + n > 0 THEN Len(cs) + n ELSE 0)

\* what calculateHash(book.image) and hammingDistance can give for a candidate:
\* the WASM module is loaded by then, so fetching or decoding fails, or a
\* distance results
CandidateHashesOver(D) ==
    {[ok |-> FALSE, distance |-> -1]}
    \cup {[ok |-> TRUE, distance |-> d] : d \in D}

CandidateHashes == CandidateHashesOver(Distances)

\* what a call of the caller's onProgress can do
CallbackOutcomes == {"returns", "throws"}

CallbackError == "callback-error"

\* a mutant of AfterTargetHash: the rejection is swallowed
AfterTargetHashSwallowed(outcome) == "title"

\* where the invocation goes after await calculateHash(targetImageUrl): a
\* rejection is not caught, so it ends the invocation
AfterTargetHash(outcome) == IF outcome = "ok" THEN "title" ELSE "rejected"

\* const targetHash = await calculateHash(targetImageUrl)
CalculateTargetHash ==
    /\ pc = "start"
    /\ \E outcome \in {"ok"} \cup HashFailures :
         /\ wasmModule' = (outcome # "wasm-init-failed")
         /\ targetHash' = IF outcome = "ok" THEN "ok" ELSE "failed"
         /\ error' = IF outcome = "ok" THEN error ELSE outcome
         /\ pc' = AfterTargetHash(outcome)
    /\ UNCHANGED <<inputs, aside, modal, searchMethod, titleTier, titleVariations, vi,
                   allBooks, seenIsbns, received, calls, books, i,
                   comparisons, hashed, progress, result>>

\* a mutant of TitleUsable: a title of two characters is searched too
TitleUsableFromTwo(name, extractedTitle) ==
    name # <<>> /\ Len(extractedTitle) >= 2

\* if (imageName) ... if (extractedTitle && extractedTitle.length > 2)
TitleUsable(name, extractedTitle) ==
    name # <<>> /\ Len(extractedTitle) > 2

\* Step 1: if (imageName) { extractedTitle = ...; if (extractedTitle &&
\* extractedTitle.length > 2) { searchMethod = 'title-based'; ... and the
\* start of searchBooksByTitle
ExtractTitle ==
    /\ pc = "title"
    /\ LET extractedTitle == extractBookTitle(imageName)
       IN  IF TitleUsable(imageName, extractedTitle)
           THEN /\ searchMethod' = "title-based"
                /\ titleTier' = "attempted"
                /\ titleVariations' = getTitleVariations(extractedTitle)
                /\ pc' = "variations"
           ELSE /\ titleTier' = "skipped"
                /\ pc' = "fallback"
                /\ UNCHANGED <<searchMethod, titleVariations>>
    /\ UNCHANGED <<inputs, aside, modal, wasmModule, targetHash, error, vi, allBooks,
                   seenIsbns, received, calls, books, i, comparisons, hashed,
                   progress, result>>

\* one iteration of for (const variation of titleVariations)
SearchVariation ==
    /\ pc = "variations"
    /\ vi <= Len(titleVariations)
    /\ \E outcome \in searchBooks(Remaining) :
         /\ calls' = Append(calls, [kind |-> "title",
                                    query |-> titleVariations[vi],
                                    status |-> outcome.status,
                                    count |-> Len(outcome.books)])
         /\ IF outcome.status = "ok"
            THEN LET added == AddBooks(outcome.books, allBooks, seenIsbns)
                 IN  /\ allBooks' = added.allBooks
                     /\ seenIsbns' = added.seenIsbns
                     /\ received' = received \o outcome.books
                     /\ vi' = vi + 1
            ELSE /\ vi' = AfterFailedVariation(vi, Len(titleVariations))
                 /\ UNCHANGED <<allBooks, seenIsbns, received>>
    /\ UNCHANGED <<inputs, aside, modal, pc, wasmModule, targetHash, error, searchMethod,
                   titleTier, titleVariations, books, i, comparisons, hashed,
                   progress, result>>

\* return allBooks; books = await searchBooksByTitle(extractedTitle, 20).
\* Every failure of a call is caught inside the loop, so searchBooksByTitle
\* never rejects and the catch around it in findSimilarCovers (searchMethod =
\* 'generic-fallback') is never entered.
TitleSearchReturns ==
    /\ pc = "variations"
    /\ vi > Len(titleVariations)
    /\ books' = allBooks
    /\ pc' = "fallback"
    /\ UNCHANGED <<inputs, aside, modal, wasmModule, targetHash, error, searchMethod,
                   titleTier, titleVariations, vi, allBooks, seenIsbns,
                   received, calls, i, comparisons, hashed, progress, result>>

\* Step 2: if (books.length === 0) { books = await getBooksWithCovers(query,
\* maxResults); searchMethod = ... }
GenericFallback ==
    /\ pc = "fallback"
    /\ NeedsFallback(books)
    /\ \E outcome \in searchBooks(Remaining) :
         /\ calls' = Append(calls, [kind |-> "generic", query |-> query,
                                    status |-> outcome.status,
                                    count |-> Len(outcome.books)])
         /\ IF outcome.status = "ok"
            THEN /\ books' = CoveredOnly(outcome.books)
                 /\ searchMethod' = FallbackMethod(CoveredOnly(outcome.books))
                 /\ pc' = "compare"
                 /\ error' = error
            ELSE /\ pc' = "rejected"
                 /\ error' = outcome.status
                 /\ UNCHANGED <<books, searchMethod>>
    /\ UNCHANGED <<inputs, aside, modal, wasmModule, targetHash, titleTier, titleVariations,
                   vi, allBooks, seenIsbns, received, i, comparisons, hashed,
                   progress, result>>

\* Step 2 not taken: the title-based search found books
KeepTitleBooks ==
    /\ pc = "fallback"
    /\ ~NeedsFallback(books)
    /\ pc' = "compare"
    /\ UNCHANGED <<inputs, aside, modal, wasmModule, targetHash, error, searchMethod,
                   titleTier, titleVariations, vi, allBooks, seenIsbns,
                   received, calls, books, i, comparisons, hashed, progress,
                   result>>

\* if (books.length === 0) return { ..., results: [], searchMethod: 'none' }
ReturnNone ==
    /\ pc = "compare"
    /\ Len(books) = 0
    /\ result' = << [targetHash |-> targetHash, results |-> <<>>,
                     totalCompared |-> 0, searchMethod |-> "none",
                     searchQuery |-> SearchQuery] >>
    /\ pc' = "returned"
    /\ UNCHANGED <<inputs, aside, modal, wasmModule, targetHash, error, searchMethod,
                   titleTier, titleVariations, vi, allBooks, seenIsbns,
                   received, calls, books, i, comparisons, hashed, progress>>

\* Step 3: one iteration of for (let i = 0; i < books.length; i++)
CompareBookOver(hashes) ==
    /\ pc = "compare"
    /\ i < Len(books)
    /\ LET book == books[i + 1]
       IN  \E callback \in IF onProgress THEN CallbackOutcomes ELSE {"absent"} :
             /\ progress' = IF onProgress
                            THEN Append(progress, [current |-> i + 1,
                                                   total |-> Len(books),
                                                   book |-> book.title])
                            ELSE progress
             /\ IF callback = "throws"
                \* the call is outside the try block: the exception ends
                \* the invocation
                THEN /\ pc' = "rejected"
                     /\ error' = CallbackError
                     /\ UNCHANGED <<hashed, comparisons, i>>
                ELSE /\ UNCHANGED <<pc, error>>
                     /\ \E h \in hashes :
                          /\ hashed' = Append(hashed, h)
                          /\ IF h.ok
                             THEN /\ comparisons' =
                                       IF PassesThreshold(Similarity(h.distance),
                                                          similarityThreshold)
                                       THEN Append(comparisons,
                                                   Comparison(book, h.distance))
                                       ELSE comparisons
                                  /\ i' = i + 1
                             ELSE /\ comparisons' = comparisons
                                  /\ i' = AfterFailedBook(i, Len(books))
    /\ UNCHANGED <<inputs, aside, modal, wasmModule, targetHash, searchMethod,
                   titleTier, titleVariations, vi, allBooks, seenIsbns,
                   received, calls, books, result>>

CompareBook == CompareBookOver(CandidateHashes)

\* sort, slice(0, topN) and return
ReturnResults ==
    /\ pc = "compare"
    /\ Len(books) > 0
    /\ i >= Len(books)
    /\ result' = << [targetHash |-> targetHash,
                     results |-> Slice(SortBySimilarity(comparisons), topN),
                     totalCompared |-> Len(books),
                     searchMethod |-> searchMethod,
                     searchQuery |-> SearchQuery] >>
    /\ pc' = "returned"
    /\ UNCHANGED <<inputs, aside, modal, wasmModule, targetHash, error, searchMethod,
                   titleTier, titleVariations, vi, allBooks, seenIsbns,
                   received, calls, books, i, comparisons, hashed, progress>>

Next ==
    \/ CalculateTargetHash
    \/ ExtractTitle
    \/ SearchVariation
    \/ TitleSearchReturns
    \/ GenericFallback
    \/ KeepTitleBooks
    \/ ReturnNone
    \/ CompareBook
    \/ ReturnResults

Spec == Init /\ [][Next]_vars

\* ------------------------------------------------------------------------
\* The comparison loop over every Hamming distance of a 64-bit hash
\* ------------------------------------------------------------------------

\* the record of the pool with title t
Book(t) == CHOOSE b \in BookPool : b.title = t

\* similarityThreshold values of the loop over every distance: 0 and 70
SimilarityThresholds == {0, 700000}

\* findSimilarCovers at the start of the comparison loop, after the generic
\* query, called without an image name, returned the covered records bs
AtCompareLoop(bs) ==
    /\ apiKey = TRUE
    /\ imageName = EmptyName
    /\ query = Fiction
    /\ pc = "compare"
    /\ wasmModule = TRUE
    /\ targetHash = "ok"
    /\ error = "none"
    /\ searchMethod = FallbackMethod(bs)
    /\ titleTier = "skipped"
    /\ titleVariations = <<>>
    /\ vi = 1
    /\ allBooks = <<>>
    /\ seenIsbns = {}
    /\ received = <<>>
    /\ calls = << [kind |-> "generic", query |-> Fiction, status |-> "ok",
                   count |-> Len(bs)] >>
    /\ books = bs
    /\ i = 0
    /\ comparisons = <<>>
    /\ hashed = <<>>
    /\ progress = <<>>
    /\ result = <<>>

InitSimilarity ==
    /\ similarityThreshold \in SimilarityThresholds
    /\ topN \in TopNs
    /\ onProgress \in BOOLEAN
    /\ AtCompareLoop(<<Book("t1")>>)
    /\ NoDirectCall
    /\ ModalClosed

\* one iteration of the loop, the candidate's hash at any distance from the
\* target's
CompareAtAnyDistance == CompareBookOver(CandidateHashesOver(0..maxDistance))

NextSimilarity ==
    \/ CompareAtAnyDistance
    \/ ReturnResults

SpecSimilarity == InitSimilarity /\ [][NextSimilarity]_vars

\* ------------------------------------------------------------------------
\* Direct calls of getTitleVariations and extractBookTitle
\* ------------------------------------------------------------------------

\* longest generated argument
MaxTextLen == 3

\* characters of the generated arguments
TextAlphabet == {"a", "B", " ", "-", "_"}

CopycatName == <<"c","o","p","y","c","a","t",".","P","N","G">>
CopyShopName == <<"T","h","e"," ","C","o","p","y"," ","S","h","o","p",".","j","p","g">>
DuneCopyName == <<"D","u","n","e"," ","c","o","p","y",".","j","p","e","g">>
DuneCopy3Name == <<"d","u","n","e"," ","-"," ","C","O","P","Y"," ","3",".","g","i","f">>
HarryPotterTitle == <<"H","a","r","r","y"," ","P","o","t","t","e","r">>
BookOneTitle == <<"T","h","e"," ","B","o","o","k"," ","O","n","e">>

\* the titles and file names the functions are called with
Texts ==
    SeqsUpTo(TextAlphabet, MaxTextLen)
    \cup {ShortName, BookName, CopycatName, CopyShopName, DuneCopyName,
          DuneCopy3Name, HarryPotterTitle, BookOneTitle}

InitText ==
    /\ fn = "none"
    /\ text \in Texts
    /\ maxLanguages = 0
    /\ translated = <<>>
    /\ output = <<>>
    /\ callers = <<>>
    /\ initCalls = 0
    /\ NotInvoked
    /\ ModalClosed

\* export function getTitleVariations(title)
GetTitleVariations ==
    /\ fn = "none"
    /\ fn' = "getTitleVariations"
    /\ output' = <<getTitleVariations(text)>>
    /\ UNCHANGED <<modal, pipeline, text, maxLanguages, translated, callers, initCalls>>

\* export function extractBookTitle(filename)
ExtractBookTitle ==
    /\ fn = "none"
    /\ fn' = "extractBookTitle"
    /\ output' = <<extractBookTitle(text)>>
    /\ UNCHANGED <<modal, pipeline, text, maxLanguages, translated, callers, initCalls>>

NextText ==
    \/ GetTitleVariations
    \/ ExtractBookTitle

SpecText == InitText /\ [][NextText]_vars

\* ------------------------------------------------------------------------
\* getMultilingualTitles and translateText
\* ------------------------------------------------------------------------

\* responses with a translated text, in one call of getMultilingualTitles
MaxTranslated == 2

TARGET_LANGUAGES ==
    <<"en", "es", "fr", "de", "it", "pt", "ru", "ja", "zh", "ko", "ar", "hi">>

\* values of the argument maxLanguages: none, two, the default and more
\* than there are languages
MaxLanguagesValues == {0, 2, 5, 13}

\* a title that differs from its normalized form "a b"
SeparatedTitle == <<"A", "_", "b">>

\* a title whose normalized form is empty
BlankTitle == <<" ", "-">>

\* a mutant of LanguagesToTry: every language is tried
LanguagesToTryAll(n) == TARGET_LANGUAGES

\* TARGET_LANGUAGES.slice(0, maxLanguages)
LanguagesToTry(n) == Slice(TARGET_LANGUAGES, n)

\* how a request to the translation service can end: the fetch fails, the
\* status is not a success, the body is not JSON, or the body has the text
TranslationFailures == {"network-error", "bad-status", "malformed"}

\* the texts the service can give for the normalized title in language lang:
\* nothing, the title itself, a text of that language, or a text that other
\* languages share
TranslatedTexts(normalized, lang) == {<<>>, normalized, <<lang>>, <<"libro">>}

TranslationOutcomes(normalized, lang) ==
    {[kind |-> f, text |-> <<>>] : f \in TranslationFailures}
    \cup {[kind |-> "ok", text |-> t] : t \in TranslatedTexts(normalized, lang)}

\* the null of JavaScript
Null == [isNull |-> TRUE, value |-> <<>>]

\* what translateText resolves to: data.translatedText, or null from its
\* catch block
translateText(outcome) ==
    IF outcome.kind = "ok"
    THEN [isNull |-> FALSE, value |-> outcome.text]
    ELSE Null

\* if (translated && translated !== normalized) return translated;
\* ... return null;
TranslationResult(translated_, normalized) ==
    IF ~translated_.isNull /\ translated_.value # <<>>
       /\ translated_.value # normalized
    THEN translated_
    ELSE Null

\* results.forEach(result => { if (result) translations.add(result); })
RECURSIVE AddResults(_, _)
AddResults(translations, results) ==
    IF results = <<>> THEN translations
    ELSE AddResults(IF ~Head(results).isNull /\ Head(results).value # <<>>
                    THEN SetAdd(translations, Head(results).value)
                    ELSE translations,
                    Tail(results))

InitMultilingual ==
    /\ fn = "none"
    /\ text \in {SeparatedTitle, BlankTitle}
    /\ maxLanguages \in MaxLanguagesValues
    /\ translated = <<>>
    /\ output = <<>>
    /\ callers = <<>>
    /\ initCalls = 0
    /\ NotInvoked
    /\ ModalClosed

\* getMultilingualTitles up to await Promise.all: languagesToTry.map starts
\* one translateText call per language, in the order of the list
StartTranslations ==
    /\ fn = "none"
    /\ fn' = "getMultilingualTitles"
    /\ translated' =
         [k \in 1..Len(LanguagesToTry(maxLanguages)) |->
            [lang |-> LanguagesToTry(maxLanguages)[k],
             status |-> "pending", response |-> Null, result |-> Null]]
    /\ UNCHANGED <<modal, pipeline, text, maxLanguages, output, callers, initCalls>>

\* one translateText call ends and the callback of its language returns.
\* The callbacks share nothing and Promise.all hands their results over in
\* the order of the list, whatever the order the responses arrive in: they
\* are taken in the order of the list.
TranslationSettles ==
    /\ fn = "getMultilingualTitles"
    /\ \E k \in 1..Len(translated) :
         /\ translated[k].status = "pending"
         /\ \A j \in 1..(k - 1) : translated[j].status = "fulfilled"
         /\ LET normalized == normalizeTitle(text)
                texts == {j \in 1..Len(translated) :
                              ~translated[j].response.isNull}
            IN  \E outcome \in TranslationOutcomes(normalized, translated[k].lang) :
                  /\ outcome.kind = "ok" => Cardinality(texts) < MaxTranslated
                  /\ translated' =
                       [translated EXCEPT ![k] =
                          [lang |-> translated[k].lang,
                           status |-> "fulfilled",
                           response |-> translateText(outcome),
                           result |-> TranslationResult(translateText(outcome),
                                                        normalized)]]
    /\ UNCHANGED <<modal, pipeline, fn, text, maxLanguages, output, callers, initCalls>>

\* Promise.all resolves, the results are added and the array is returned
ReturnTitles ==
    /\ fn = "getMultilingualTitles"
    /\ output = <<>>
    /\ \A k \in 1..Len(translated) : translated[k].status = "fulfilled"
    /\ LET normalized == normalizeTitle(text)
           translations == SetAddAll(<<normalized>>, getTitleVariations(text))
           results == [k \in 1..Len(translated) |-> translated[k].result]
       IN  output' = <<NonEmptyOnly(AddResults(translations, results))>>
    /\ UNCHANGED <<modal, pipeline, fn, text, maxLanguages, translated, callers, initCalls>>

NextMultilingual ==
    \/ StartTranslations
    \/ TranslationSettles
    \/ ReturnTitles

SpecMultilingual == InitMultilingual /\ [][NextMultilingual]_vars

\* ------------------------------------------------------------------------
\* Concurrent calls of initPhash
\* ------------------------------------------------------------------------

\* callers of initPhash (calculateHash and compareImages calls in flight)
NumCallers == 3

\* calls of initPhash one caller makes
MaxCallsEach == 2

Callers == 1..NumCallers

InitPhashCalls ==
    /\ callers = [c \in Callers |-> [at |-> "idle", calls |-> 0]]
    /\ initCalls = 0
    /\ fn = "none"
    /\ text = ""
    /\ maxLanguages = 0
    /\ translated = <<>>
    /\ output = <<>>
    /\ NotInvoked
    /\ ModalClosed

\* initPhash up to its first await: if (wasmModule) return wasmModule;
\* otherwise the import of the module starts
CallInitPhash(c) ==
    /\ callers[c].at \in {"idle", "returned"}
    /\ callers[c].calls < MaxCallsEach
    /\ callers' = [callers EXCEPT ![c] =
                      [at |-> IF wasmModule THEN "returned" ELSE "importing",
                       calls |-> callers[c].calls + 1]]
    /\ UNCHANGED <<modal, invocation, wasmModule, initCalls, fn, text, maxLanguages,
                   translated, output>>

\* await import('../wasm/rust_phash.js') ends: wasmImport.default() is
\* called, or the import failed and initPhash rejects
ImportSettles(c) ==
    /\ callers[c].at = "importing"
    /\ \E ok \in BOOLEAN :
         IF ok
         THEN /\ initCalls' = initCalls + 1
              /\ callers' = [callers EXCEPT ![c].at = "initialising"]
         ELSE /\ initCalls' = initCalls
              /\ callers' = [callers EXCEPT ![c].at = "rejected"]
    /\ UNCHANGED <<modal, invocation, wasmModule, fn, text, maxLanguages, translated,
                   output>>

\* await wasmImport.default() ends: wasmModule = wasmImport; return
\* wasmModule, or the initialiser failed and initPhash rejects
InitialiserSettles(c) ==
    /\ callers[c].at = "initialising"
    /\ \E ok \in BOOLEAN :
         IF ok
         THEN /\ wasmModule' = TRUE
              /\ callers' = [callers EXCEPT ![c].at = "returned"]
         ELSE /\ wasmModule' = wasmModule
              /\ callers' = [callers EXCEPT ![c].at = "rejected"]
    /\ UNCHANGED <<modal, invocation, initCalls, fn, text, maxLanguages, translated,
                   output>>

NextInitPhash ==
    \/ \E c \in Callers : CallInitPhash(c)
    \/ \E c \in Callers : ImportSettles(c)
    \/ \E c \in Callers : InitialiserSettles(c)

SpecInitPhash == InitPhashCalls /\ [][NextInitPhash]_vars

\* ------------------------------------------------------------------------
\* The Modal component and the useModal hook
\* ------------------------------------------------------------------------

\* openings of the modal in one session
MaxOpenings == 3

\* candidates a scan reports progress for
MaxScanBooks == 2

\* the covers of the grid
Images == {"A", "B"}

InitModal ==
    /\ ModalClosed
    /\ NoDirectCall
    /\ NotInvoked

\* openModal(image), from a click on a card of the grid; the reset effect
\* runs with isOpen true and does nothing
OpenModal(image) ==
    /\ ~isOpen
    /\ opening < MaxOpenings
    /\ selectedImage' = image
    /\ isOpen' = TRUE
    /\ opening' = opening + 1
    /\ UNCHANGED <<pipeline, aside, isScanning, scanResults, scanError,
                   scanProgress, scan>>

\* closeModal(), from the close button, the overlay or the Escape key, and
\* the reset effect that runs for the new isOpen
CloseModal ==
    /\ isOpen
    /\ isOpen' = FALSE
    /\ selectedImage' = "none"
    /\ scanResults' = <<>>
    /\ scanError' = <<>>
    /\ scanProgress' = NoProgress
    /\ UNCHANGED <<pipeline, aside, isScanning, scan, opening>>

\* handleScan up to await findSimilarCovers(...), from a click on the scan
\* button, which is rendered when the modal is open and disabled while
\* isScanning
HandleScan ==
    /\ isOpen
    /\ selectedImage # "none"
    /\ ~isScanning
    /\ isScanning' = TRUE
    /\ scanError' = <<>>
    /\ scanResults' = <<>>
    /\ scanProgress' = NoProgress
    /\ scan' = << [image |-> selectedImage, opening |-> opening, current |-> 0] >>
    /\ UNCHANGED <<pipeline, aside, isOpen, selectedImage, opening>>

\* the onProgress callback of the scan in flight: setScanProgress
ScanProgresses ==
    /\ scan # <<>>
    /\ scan[1].current < MaxScanBooks
    /\ scan' = << [scan[1] EXCEPT !.current = @ + 1] >>
    /\ scanProgress' = [current |-> scan[1].current + 1, total |-> MaxScanBooks,
                        image |-> scan[1].image, opening |-> scan[1].opening]
    /\ UNCHANGED <<pipeline, aside, isOpen, selectedImage, isScanning,
                   scanResults, scanError, opening>>

\* findSimilarCovers resolves: setScanResults(data), setScanError when
\* data.results is empty, and setIsScanning(false) of the finally block
ScanResolves ==
    /\ scan # <<>>
    /\ \E matches \in BOOLEAN :
         /\ scanResults' = << [image |-> scan[1].image,
                               opening |-> scan[1].opening,
                               matches |-> matches] >>
         /\ scanError' = IF matches THEN scanError
                         ELSE << [image |-> scan[1].image,
                                  opening |-> scan[1].opening] >>
    /\ isScanning' = FALSE
    /\ scan' = <<>>
    /\ UNCHANGED <<pipeline, aside, isOpen, selectedImage, scanProgress, opening>>

\* findSimilarCovers rejects: setScanError(error.message || ...) of the catch
\* block and setIsScanning(false) of the finally block
ScanRejects ==
    /\ scan # <<>>
    /\ scanError' = << [image |-> scan[1].image, opening |-> scan[1].opening] >>
    /\ isScanning' = FALSE
    /\ scan' = <<>>
    /\ UNCHANGED <<pipeline, aside, isOpen, selectedImage, scanResults,
                   scanProgress, opening>>

NextModal ==
    \/ \E image \in Images : OpenModal(image)
    \/ CloseModal
    \/ HandleScan
    \/ ScanProgresses
    \/ ScanResolves
    \/ ScanRejects

SpecModal == InitModal /\ [][NextModal]_vars

\* ------------------------------------------------------------------------
\* Properties
\* ------------------------------------------------------------------------

\* the covered records of s, in order
CoveredBooks(s) == SelectSeq(s, HasCover)

\* the first k records of s without those whose key an earlier one has
RECURSIVE FirstOccurrences(_, _)
FirstOccurrences(s, k) ==
    IF k = 0 THEN <<>>
    ELSE IF \E j \in 1..(k - 1) : DedupKey(s[j]) = DedupKey(s[k])
         THEN FirstOccurrences(s, k - 1)
         ELSE Append(FirstOccurrences(s, k - 1), s[k])

FirstSeen(s) == FirstOccurrences(s, Len(s))

TitleCalls == SelectSeq(calls, LAMBDA c : c.kind = "title")

GenericCalls == SelectSeq(calls, LAMBDA c : c.kind = "generic")

\* the ranking of candidates bs with Hamming distances ds, none failing
RECURSIVE ComparisonsOf(_, _)
ComparisonsOf(bs, ds) ==
    IF bs = <<>> THEN <<>>
    ELSE LET rest == ComparisonsOf(SubSeq(bs, 1, Len(bs) - 1),
                                   SubSeq(ds, 1, Len(ds) - 1))
             b == bs[Len(bs)]
             d == ds[Len(ds)]
         IN  IF PassesThreshold(Similarity(d), similarityThreshold)
             THEN Append(rest, Comparison(b, d))
             ELSE rest

\* indices of the compared candidates whose hash was computed
Hashed == {k \in 1..Len(hashed) : hashed[k].ok}

\* the k-th smallest member of the set of numbers S
RECURSIVE Nth(_, _)
Nth(S, k) ==
    LET m == CHOOSE x \in S : \A y \in S : x <= y
    IN  IF k = 1 THEN m ELSE Nth(S \ {m}, k - 1)

\* C1: every result returned by findSimilarCovers is non-increasing in the
\* reported similarity, has at most topN entries, and every entry's reported
\* (rounded) similarity is at least the supplied threshold.
C1_RankingInvariant ==
    result # <<>> =>
        LET rs == result[1].results
        IN  /\ \A k \in 1..(Len(rs) - 1) : rs[k].similarity >= rs[k + 1].similarity
            /\ Len(rs) <= topN
            /\ \A k \in 1..Len(rs) : rs[k].similarity * 100 >= similarityThreshold

\* C2: the candidate list of the title-based search never holds two
\* candidates with the same deduplication key; of the covered records
\* received with one key, the first is the one kept, and the kept ones are in
\* the order they were first received.
C2_TitleSearchDeduplicates ==
    /\ \A a, b \in 1..Len(allBooks) :
         a # b => DedupKey(allBooks[a]) # DedupKey(allBooks[b])
    /\ allBooks = FirstSeen(CoveredBooks(received))

\* C2 witness: two variations each returned one covered record, both with the
\* same key, and the search returned the first of them only.
C2_Witness ==
    /\ pc = "fallback"
    /\ Len(TitleCalls) >= 2
    /\ TitleCalls[1].count = 1 /\ TitleCalls[2].count = 1
    /\ Len(received) = 2
    /\ received[1] # received[2]
    /\ HasCover(received[1]) /\ HasCover(received[2])
    /\ ~Falsy(DedupKey(received[1]))
    /\ DedupKey(received[1]) = DedupKey(received[2])
    /\ allBooks = <<received[1]>>

\* C3: every covered record without an identifier (neither isbn13 nor isbn)
\* that the title-based search received is in the candidate list it returns.
C3_IdentifierLessKept ==
    (titleTier = "attempted" /\ pc # "variations") =>
        \A k \in 1..Len(received) :
            (/\ HasCover(received[k])
             /\ Falsy(received[k].isbn13)
             /\ Falsy(received[k].isbn))
                => \E j \in 1..Len(allBooks) : allBooks[j] = received[k]

\* C4: a result returned after the title-based tier gave no candidate (skipped
\* or attempted) never has the searchMethod 'title-based'.
C4_FallbackMethodTag ==
    (result # <<>> /\ allBooks = <<>>) =>
        result[1].searchMethod \in {"generic", "generic-fallback", "none"}

\* C4 witness: the title-based tier was attempted, gave nothing, and the
\* generic fallback found the candidates of the result.
C4_Witness ==
    /\ result # <<>>
    /\ titleTier = "attempted"
    /\ allBooks = <<>>
    /\ Len(books) > 0
    /\ result[1].searchMethod = "generic"

\* C5: findSimilarCovers rejects only for the missing credential or a failed
\* target hash, never for a remote failure of a catalog call.
C5_RejectsOnlyForConfigOrTargetHash ==
    pc = "rejected" => (error = ConfigError \/ targetHash = "failed")

\* C6: in the title-based search the variations are searched in order, a
\* failed call stops neither the loop nor the invocation, every variation is
\* searched, and the candidate list is the first-seen deduplication of the
\* covered records of the successful responses.
C6_VariationFailuresTolerated ==
    titleTier = "attempted" =>
        /\ Len(TitleCalls) <= Len(titleVariations)
        /\ \A k \in 1..Len(TitleCalls) : TitleCalls[k].query = titleVariations[k]
        /\ pc # "variations" => Len(TitleCalls) = Len(titleVariations)
        /\ \A k \in 1..Len(TitleCalls) :
             TitleCalls[k].status # "ok" => TitleCalls[k].count = 0
        /\ allBooks = FirstSeen(CoveredBooks(received))
        /\ (pc = "rejected" /\ error # CallbackError) =>
             calls[Len(calls)].kind = "generic"

\* C6 witness: a variation failed, a later one succeeded and gave the
\* candidate the search returned.
C6_Witness ==
    /\ pc = "fallback"
    /\ apiKey
    /\ Len(TitleCalls) = Len(titleVariations)
    /\ \E k \in 1..Len(TitleCalls) : \E j \in (k + 1)..Len(TitleCalls) :
         /\ TitleCalls[k].status = RemoteError
         /\ TitleCalls[j].status = "ok"
         /\ TitleCalls[j].count > 0
    /\ Len(allBooks) > 0
    /\ books = allBooks

\* C7: when candidates fail to hash, findSimilarCovers still returns, has
\* attempted every candidate, and its results are those of the candidates
\* that did not fail, ranked as if the failing ones were absent.
C7_HashFailuresSkipped ==
    /\ (hashed # <<>> /\ pc = "rejected") => error = CallbackError
    /\ (pc = "returned" /\ Len(books) > 0) =>
         /\ Len(hashed) = Len(books)
         /\ LET n  == Cardinality(Hashed)
                bs == [k \in 1..n |-> books[Nth(Hashed, k)]]
                ds == [k \in 1..n |-> hashed[Nth(Hashed, k)].distance]
            IN  result[1].results = Slice(SortBySimilarity(ComparisonsOf(bs, ds)), topN)

\* C7 witness: the first candidate failed, the second was hashed and is the
\* only match of the result.
C7_Witness ==
    /\ pc = "returned"
    /\ Len(books) = 2
    /\ ~hashed[1].ok
    /\ hashed[2].ok
    /\ Len(result[1].results) = 1
    /\ result[1].results[1].book.title = books[2].title

\* C8: a catalog call that failed with the configuration error is the last
\* catalog call of the invocation, which does not return a result.
C8_ConfigErrorIsImmediate ==
    \A k \in 1..Len(calls) :
        calls[k].status = ConfigError => (k = Len(calls) /\ pc # "returned")

\* C9: a failed target hash rejects the invocation with that error, without
\* a result, and before any catalog call, candidate hash or onProgress call.
C9_TargetHashFailureIsFatal ==
    targetHash = "failed" =>
        /\ pc = "rejected"
        /\ error \in HashFailures
        /\ result = <<>>
        /\ calls = <<>>
        /\ hashed = <<>>
        /\ progress = <<>>

\* C9 witness: the target image could not be fetched in an invocation with a
\* usable image name, a credential and a progress callback.
C9_Witness ==
    /\ targetHash = "failed"
    /\ pc = "rejected"
    /\ error = "fetch-failed"
    /\ imageName = BookName
    /\ apiKey
    /\ onProgress

\* C10: the generic query is issued once exactly when the title-based tier
\* was skipped or gave no candidate, and never before that is known; when the
\* tier gave candidates no generic call is made and they are the candidates
\* compared.
C10_GenericFallbackExactlyWhenNeeded ==
    /\ Len(GenericCalls) <= 1
    /\ pc \in {"start", "title", "variations", "fallback"} => GenericCalls = <<>>
    /\ (titleTier # "pending" /\ pc \in {"compare", "returned", "rejected"}) =>
         /\ (Len(GenericCalls) = 1) <=> (titleTier = "skipped" \/ allBooks = <<>>)
         /\ allBooks # <<>> => books = allBooks

\* C10 witness: every variation search failed remotely and the generic query
\* was then issued once and gave the candidates.
C10_Witness ==
    /\ pc = "returned"
    /\ titleTier = "attempted"
    /\ Len(TitleCalls) = Len(titleVariations)
    /\ \A k \in 1..Len(TitleCalls) : TitleCalls[k].status = RemoteError
    /\ Len(GenericCalls) = 1
    /\ Len(books) > 0

\* C11: totalCompared of every result is the number of candidates whose cover
\* was fetched, hashed and compared; a candidate whose hashing failed is not
\* counted.
C11_TotalComparedCountsHashed ==
    result # <<>> => result[1].totalCompared = Cardinality(Hashed)

\* C12: when the candidates of a result came from the generic fallback query
\* (also when it found nothing), searchQuery is that query, whatever the
\* image name.
C12_SearchQueryIsEffectiveQuery ==
    (result # <<>> /\ GenericCalls # <<>>) =>
        /\ result[1].searchMethod \in {"generic", "none"}
        /\ result[1].searchQuery = GenericCalls[1].query

\* C15: every match of a result has matchedByTitle true exactly when the
\* title-based search found the candidates: the flag is the same for all
\* matches, true iff searchMethod is 'title-based', false for candidates of
\* the generic fallback.
C15_MatchedByTitleFlag ==
    result # <<>> =>
        \A k \in 1..Len(result[1].results) :
            LET flag == result[1].results[k].matchedByTitle
            IN  /\ flag = (result[1].searchMethod = "title-based")
                /\ flag = (allBooks # <<>> /\ books = allBooks /\ GenericCalls = <<>>)
                /\ GenericCalls # <<>> => ~flag

\* C15 witness: the title-based search was attempted and found nothing, the
\* generic fallback gave the candidate of a match, whose flag is false.
C15_Witness ==
    /\ result # <<>>
    /\ titleTier = "attempted"
    /\ GenericCalls # <<>>
    /\ Len(result[1].results) > 0
    /\ ~result[1].results[1].matchedByTitle

\* the notifications made so far are one per candidate reached, in candidate
\* order, each made before the candidate's cover is hashed
NotificationsInOrder ==
    /\ \A k \in 1..Len(progress) :
         progress[k] = [current |-> k, total |-> Len(books),
                        book |-> books[k].title]
    /\ onProgress => Len(hashed) <= Len(progress)
    /\ (onProgress /\ pc = "compare") => Len(progress) = Len(hashed)
    /\ (onProgress /\ pc = "returned") => Len(progress) = Len(books)
    /\ ~onProgress => progress = <<>>

\* C20: in the comparison loop onProgress is called once per candidate, in
\* candidate order, with currentIndex 1, 2, ... and total the number of
\* candidates, before the candidate's cover is hashed and also when that
\* hashing fails; the notification has no effect on control flow: whatever
\* the callback does, the invocation goes on to the same result.
C20_ProgressNotifications ==
    /\ NotificationsInOrder
    /\ pc = "rejected" => error # CallbackError

\* the similarity a match of candidate k reports, in 1/100 percent
Reported(k) == RoundedSimilarity(Similarity(hashed[k].distance))

\* the hashed candidates whose reported similarity is at least the threshold
KeptByReported == {k \in Hashed : Reported(k) * 100 >= similarityThreshold}

\* the hashed candidates the comparison of the code keeps
KeptByCode ==
    {k \in Hashed : PassesThreshold(Similarity(hashed[k].distance),
                                    similarityThreshold)}

\* place of candidate k in the ranking of the candidates kept: after the
\* ones more similar and the equally similar ones discovered earlier
RankIn(kept, k) ==
    1 + Cardinality({j \in kept : \/ Reported(j) > Reported(k)
                                  \/ (Reported(j) = Reported(k) /\ j < k)})

\* rs is the ranking of the candidates kept, cut to its first topN entries
IsRankingOf(rs, kept) ==
    /\ Len(rs) = IF Cardinality(kept) < topN THEN Cardinality(kept) ELSE topN
    /\ \A k \in kept :
         RankIn(kept, k) <= topN =>
            /\ rs[RankIn(kept, k)].book.title = books[k].title
            /\ rs[RankIn(kept, k)].hammingDistance = hashed[k].distance
            /\ rs[RankIn(kept, k)].similarity = Reported(k)

\* the results are the ranking of the candidates the code keeps
ResultsRankKeptByCode ==
    result # <<>> => IsRankingOf(result[1].results, KeptByCode)

\* C14: the results of findSimilarCovers are the reference ranking: the
\* successfully hashed candidates in discovery order, those with similarity
\* at least the threshold kept, sorted by similarity descending with equally
\* similar matches in discovery order, cut to the first topN.
C14_ReferenceRanking ==
    result # <<>> => IsRankingOf(result[1].results, KeptByReported)

\* (1 - d/64) * 100 rounded half-up to two decimal places, in 1/100 percent
HalfUpPercent(d) == ((64 - d) * 20000 + 64) \div 128

\* the matches pushed so far and the matches of the result
Matches ==
    {comparisons[k] : k \in 1..Len(comparisons)}
    \cup (IF result = <<>> THEN {}
          ELSE {result[1].results[k] : k \in 1..Len(result[1].results)})

\* C13: for every Hamming distance d in 0..64 the similarity a match reports
\* is (1 - d/64) * 100 rounded half-up to two decimal places and lies in
\* [0, 100]; 0 gives 100.00, 64 gives 0.00, 16 gives 75.00, 2 gives 96.88 and
\* 10 gives 84.38.
C13_ReportedSimilarity ==
    \A m \in Matches :
        /\ m.hammingDistance \in 0..64
        /\ m.similarity = HalfUpPercent(m.hammingDistance)
        /\ m.similarity >= 0 /\ m.similarity <= 10000
        /\ m.hammingDistance = 0 => m.similarity = 10000
        /\ m.hammingDistance = 64 => m.similarity = 0
        /\ m.hammingDistance = 16 => m.similarity = 7500
        /\ m.hammingDistance = 2 => m.similarity = 9688
        /\ m.hammingDistance = 10 => m.similarity = 8438

\* C13 witness: a result whose match is at distance 10 and reports 84.38.
C13_Witness ==
    /\ result # <<>>
    /\ Len(result[1].results) = 1
    /\ result[1].results[1].hammingDistance = 10
    /\ result[1].results[1].similarity = 8438

\* xs has the member x
Has(xs, x) == \E k \in 1..Len(xs) : xs[k] = x

Tidy(s) == Trim(CollapseSpaces(s))

\* t is a "copy" / "copy N" / "copy (N)" suffix, in any case, possibly set
\* off by spaces and a separator
IsCopySuffix(t) ==
    /\ CopyMatchLen(t) > 0
    /\ Trim(Drop(t, CopyMatchLen(t))) = <<>>

\* the name without its image extension and its trailing copy suffix, the
\* separators made spaces, tidied; the rest of the name is left as it is
TitleOfName(filename) ==
    LET base == ReplaceSeparators(StripExtension(filename))
        cuts == {p \in 0..Len(base) : IsCopySuffix(Drop(base, p))}
    IN  IF cuts = {} THEN Tidy(base)
        ELSE Tidy(SubSeq(base, 1, CHOOSE p \in cuts : \A q \in cuts : p <= q))

\* s has no leading or trailing space, no two spaces in a row, no '-' or '_'
IsTidy(s) ==
    /\ s = Trim(s)
    /\ \A k \in 1..(Len(s) - 1) : ~(IsSpace(s[k]) /\ IsSpace(s[k + 1]))
    /\ \A k \in 1..Len(s) : s[k] \notin {"-", "_"}

\* what extractBookTitle returns is tidy, and "My Book" for the name
\* "My_Book - copy (2).jpg"
ExtractedTitleIsTidy ==
    fn = "extractBookTitle" =>
        /\ IsTidy(output[1])
        /\ text = BookName => output[1] = <<"M","y"," ","B","o","o","k">>

\* C18: extractBookTitle strips a known image extension, makes '-' and '_'
\* spaces, removes a trailing "copy" / "copy (N)" suffix in any case,
\* collapses runs of white space and trims, and leaves the rest of the name
\* as it is; "My_Book - copy (2).jpg" gives "My Book", and the result has no
\* leading or trailing white space, no two spaces in a row, no '-' or '_'.
C18_ExtractBookTitle ==
    fn = "extractBookTitle" =>
        /\ output[1] = TitleOfName(text)
        /\ IsTidy(output[1])
        /\ text = BookName => output[1] = <<"M","y"," ","B","o","o","k">>

\* the members of the sequence xs
Members(xs) == {xs[k] : k \in 1..Len(xs)}

\* the texts of the successful translations that are non-empty and differ
\* from the normalized title
GoodTranslations ==
    {translated[k].response.value :
        k \in {j \in 1..Len(translated) :
                  /\ ~translated[j].response.isNull
                  /\ translated[j].response.value # <<>>
                  /\ translated[j].response.value # normalizeTitle(text)}}

\* C17: whatever translation attempts fail, getMultilingualTitles completes
\* without raising, attempts each of the first min(maxLanguages, 12)
\* languages of the list once, and returns the members of
\* getTitleVariations(title) and the successful translations that are
\* non-empty and differ from the normalized form, nothing else.
C17_MultilingualTitles ==
    fn = "getMultilingualTitles" =>
        /\ Len(translated) = IF maxLanguages < 12 THEN maxLanguages ELSE 12
        /\ \A k \in 1..Len(translated) :
             /\ translated[k].lang = TARGET_LANGUAGES[k]
             /\ translated[k].status \in {"pending", "fulfilled"}
             /\ translated[k].response.isNull => translated[k].result.isNull
        /\ output # <<>> =>
              Members(output[1]) =
                 Members(getTitleVariations(text)) \cup GoodTranslations

\* C17 witness: of the five attempts of the default, the first gave the
\* title itself, the second a text of its language, the others failed, and
\* the call returned the variations and that one text.
C17_Witness ==
    /\ fn = "getMultilingualTitles"
    /\ text = SeparatedTitle
    /\ maxLanguages = 5
    /\ output # <<>>
    /\ translated[1].response.value = normalizeTitle(text)
    /\ translated[2].response.value = <<"es">>
    /\ translated[3].response.isNull
    /\ translated[4].response.isNull
    /\ translated[5].response.isNull
    /\ Has(output[1], <<"es">>)
    /\ Len(output[1]) = Len(getTitleVariations(text)) + 1

\* the module is cached once a call has returned, and a call made after that
\* returns it without starting an import
CachedAfterReturn ==
    (\E c \in DOMAIN callers : callers[c].at = "returned") => wasmModule

\* C19: the lazy initialisation runs at most once: however concurrent
\* initPhash calls interleave, the initialiser of the WASM module is invoked
\* once and every caller gets the module; after a successful initialisation
\* a later call returns it without initialising again.
C19_InitialisedOnce ==
    /\ (\A c \in DOMAIN callers : callers[c].at # "rejected") => initCalls <= 1
    /\ (\E c \in DOMAIN callers : callers[c].at = "returned") => wasmModule

\* C21: the title-based tier is attempted if and only if imageName is not
\* empty and the title extracted from it has more than 2 characters;
\* otherwise no title-variation search is issued and the only catalog call
\* of the invocation is the one generic fallback query.
C21_TitleTierExactlyForUsableTitles ==
    LET usable == imageName # <<>> /\ Len(extractBookTitle(imageName)) > 2
    IN  /\ titleTier # "pending" => (titleTier = "attempted") = usable
        /\ TitleCalls # <<>> => (titleTier = "attempted" /\ usable)
        /\ ~usable =>
             /\ TitleCalls = <<>>
             /\ Len(calls) <= 1
             /\ pc \in {"compare", "returned"} =>
                  /\ Len(calls) = 1
                  /\ calls[1].kind = "generic"
                  /\ calls[1].query = query

\* C21 witness: the name "it.png" gives the title "it", the title-based tier
\* was skipped and the result comes from the generic query, the only call.
C21_Witness ==
    /\ imageName = ShortName
    /\ Len(extractBookTitle(imageName)) = 2
    /\ titleTier = "skipped"
    /\ pc = "returned"
    /\ result # <<>>
    /\ Len(calls) = 1
    /\ calls[1].kind = "generic"

\* what is shown was produced by a scan of image im started in opening op
ShownIsOf(im, op) ==
    /\ scanResults # <<>> =>
         (scanResults[1].image = im /\ scanResults[1].opening = op)
    /\ scanError # <<>> =>
         (scanError[1].image = im /\ scanError[1].opening = op)
    /\ scanProgress # NoProgress =>
         (scanProgress.image = im /\ scanProgress.opening = op)

\* C22: in the Modal the scan state never outlives the image it was produced
\* for: whenever the modal is open, the results, the error and the progress
\* shown come from a scan started for the displayed image in the current
\* opening, and after the reset on close a scan started before the close
\* populates none of them.
C22_ScanStateOfCurrentImage ==
    /\ isOpen => ShownIsOf(selectedImage, opening)
    /\ ~isOpen =>
         (scanResults = <<>> /\ scanError = <<>> /\ scanProgress = NoProgress)

====
